---- MODULE Spec2Model ----
(***************************************************************************)
(* A model of the table widget (src/src/widgets/table/table.rs): the       *)
(* configuration of a Table, the TableState the host keeps across frames,  *)
(* and one stateful render of the table into a buffer.                     *)
(*                                                                         *)
(* Indices are the code's 0-based indices; a sequence s of the model holds *)
(* the code's s[i] at s[i + 1].                                            *)
(***************************************************************************)
EXTENDS Integers, Sequences, FiniteSets, TLC

\* Option: None is the empty sequence and Some(x) the sequence holding x.
None == << >>
Some(x) == << x >>

\* ------------------------------------------------------------- bounds
\* The longest row list a table is built with.
MaxRows == 3
\* The longest row list of a table built to lay out columns.
MaxColumnRows == 2
\* The largest offset the host stores in a TableState (may exceed row_count - 1).
MaxOffset == 3
\* The largest index the host selects (may exceed row_count - 1).
MaxSelected == 3
\* The largest height of the area a table is rendered into.
MaxHeight == 3
\* The largest width of the area a table is rendered into.
MaxWidth == 6
\* The largest width columns are laid out in.
MaxLayoutWidth == 10

\* u16::MAX
U16Max == 65535

\* Iterator::collect: the elements of a sequence, in order.
Collect(s) == << >> \o s

\* ------------------------------------------------------------ integers
Min2(a, b) == IF a <= b THEN a ELSE b
Max2(a, b) == IF a >= b THEN a ELSE b

\* A u16 `+` or `*` whose result exceeds u16::MAX: a build without overflow checks
\* keeps the low 16 bits, a build with them panics.
Wrap16(n) == n % (U16Max + 1)
Overflows(n) == n > U16Max

\* u16::saturating_add, u16::saturating_sub
saturating_add(a, b) == Min2(a + b, U16Max)
saturating_sub(a, b) == Max2(a - b, 0)

\* ---------------------------------------------------------------- rows
\* A Row: its height, margins, number of cells and style.
Row(h, tm, bm, n, st) ==
    [height |-> h, top_margin |-> tm, bottom_margin |-> bm, cells |-> n, style |-> st]

\* Row::height_with_margin
height_with_margin(row) ==
    saturating_add(saturating_add(row.height, row.top_margin), row.bottom_margin)

\* ------------------------------------------------------- get_row_bounds
\* The window under construction: rows start..end-1, their accumulated height,
\* whether an index went out of range (a panic), and whether an addition overflowed.
Win(s, e, h, p) ==
    [start |-> s, end |-> e, height |-> h, panic |-> p, overflow |-> FALSE]

\* for item in self.rows.iter().skip(offset) { if height + item.height > max_height
\* { break; } height += item.height_with_margin(); end += 1; }
RECURSIVE InitialScan(_, _, _)
InitialScan(rows, w, max_height) ==
    IF w.end >= Len(rows) THEN w
    ELSE LET item == rows[w.end + 1]
             test == w.height + item.height
             sum  == w.height + height_with_margin(item)
         IN  IF Wrap16(test) > max_height
             THEN [w EXCEPT !.overflow = @ \/ Overflows(test)]
             ELSE InitialScan(rows,
                              [Win(w.start, w.end + 1, Wrap16(sum), FALSE) EXCEPT
                                  !.overflow = w.overflow \/ Overflows(test) \/ Overflows(sum)],
                              max_height)

\* The inner loop restarting the window at its last row instead of dropping one
\* row at a time.
DropFromStart_ToLastRow(rows, w, max_height) ==
    IF w.panic \/ ~(w.height > max_height) \/ w.end = 0 THEN w
    ELSE Win(w.end - 1, w.end, height_with_margin(rows[w.end]), FALSE)

\* while height > max_height { height = height.saturating_sub(
\* self.rows[start].height_with_margin()); start += 1; }
RECURSIVE DropFromStart(_, _, _)
DropFromStart(rows, w, max_height) ==
    IF w.panic \/ ~(w.height > max_height) THEN w
    ELSE IF w.start >= Len(rows) THEN [w EXCEPT !.panic = TRUE]
    ELSE DropFromStart(rows,
                       Win(w.start + 1, w.end,
                           saturating_sub(w.height, height_with_margin(rows[w.start + 1])),
                           FALSE),
                       max_height)

\* while selected >= end { height = height.saturating_add(
\* self.rows[end].height_with_margin()); end += 1; <drop from start> }
RECURSIVE ScrollDown(_, _, _, _)
ScrollDown(rows, w, selected, max_height) ==
    IF w.panic \/ ~(selected >= w.end) THEN w
    ELSE IF w.end >= Len(rows) THEN [w EXCEPT !.panic = TRUE]
    ELSE ScrollDown(rows,
                    DropFromStart(rows,
                                  Win(w.start, w.end + 1,
                                      saturating_add(w.height,
                                                     height_with_margin(rows[w.end + 1])),
                                      FALSE),
                                  max_height),
                    selected, max_height)

\* The inner loop cutting the window down to its first row instead of dropping one
\* row at a time.
DropFromEnd_ToFirstRow(rows, w, max_height) ==
    IF w.panic \/ ~(w.height > max_height) \/ w.start >= Len(rows) THEN w
    ELSE Win(w.start, w.start + 1, height_with_margin(rows[w.start + 1]), FALSE)

\* while height > max_height { end -= 1; height = height.saturating_sub(
\* self.rows[end].height_with_margin()); }
RECURSIVE DropFromEnd(_, _, _)
DropFromEnd(rows, w, max_height) ==
    IF w.panic \/ ~(w.height > max_height) THEN w
    ELSE IF w.end = 0 \/ w.end - 1 >= Len(rows) THEN [w EXCEPT !.panic = TRUE]
    ELSE DropFromEnd(rows,
                     Win(w.start, w.end - 1,
                         saturating_sub(w.height, height_with_margin(rows[w.end])),
                         FALSE),
                     max_height)

\* The window left where the first two loops put it.
ScrollUp_Skipped(rows, w, selected, max_height) == w

\* while selected < start { start -= 1; height = height.saturating_add(
\* self.rows[start].height_with_margin()); <drop from end> }
RECURSIVE ScrollUp(_, _, _, _)
ScrollUp(rows, w, selected, max_height) ==
    IF w.panic \/ ~(selected < w.start) THEN w
    ELSE IF w.start = 0 \/ w.start - 1 >= Len(rows) THEN [w EXCEPT !.panic = TRUE]
    ELSE ScrollUp(rows,
                  DropFromEnd(rows,
                              Win(w.start - 1, w.end,
                                  saturating_add(w.height,
                                                 height_with_margin(rows[w.start])),
                                  FALSE),
                              max_height),
                  selected, max_height)

\* The offset used as it comes.
ClampOffset_Unclamped(rows, offset) == offset

\* The scan starts one row after the stored offset.
ClampOffset_NextRow(rows, offset) == Min2(offset + 1, saturating_sub(Len(rows), 1))

\* let offset = offset.min(self.rows.len().saturating_sub(1));
ClampOffset(rows, offset) == Min2(offset, saturating_sub(Len(rows), 1))

\* The selection used as it comes, None as row 0.
ClampSelected_Unclamped(rows, selected) == IF selected = None THEN 0 ELSE selected[1]

\* No selection taken as the last row.
ClampSelected_NoneAsLast(rows, selected) ==
    IF selected = None THEN Len(rows) - 1 ELSE Min2(selected[1], Len(rows) - 1)

\* let selected = selected.unwrap_or(0).min(self.rows.len() - 1);
ClampSelected(rows, selected) ==
    Min2(IF selected = None THEN 0 ELSE selected[1], Len(rows) - 1)

\* get_row_bounds without its `while selected >= end` loop.
get_row_bounds_NoScrollDown(rows, selected, offset, max_height) ==
    LET off  == ClampOffset(rows, offset)
        w1   == InitialScan(rows, Win(off, off, 0, FALSE), max_height)
        sel  == ClampSelected(rows, selected)
    IN  ScrollUp(rows, w1, sel, max_height)

\* Table::get_row_bounds, called with a non-empty row list.
get_row_bounds(rows, selected, offset, max_height) ==
    LET off  == ClampOffset(rows, offset)
        w1   == InitialScan(rows, Win(off, off, 0, FALSE), max_height)
        sel  == ClampSelected(rows, selected)
        w2   == ScrollDown(rows, w1, sel, max_height)
    IN  [ScrollUp(rows, w2, sel, max_height) EXCEPT !.overflow = w1.overflow]

\* ---------------------------------------------------------- constraints
\* Constraint: Length(n), Percentage(p), Ratio(a, b), Min(n), Max(n).
Length(n)     == [kind |-> "Length", a |-> n, b |-> 1]
Percentage(p) == [kind |-> "Percentage", a |-> p, b |-> 100]
Ratio(n, d)   == [kind |-> "Ratio", a |-> n, b |-> d]
MinC(n)       == [kind |-> "Min", a |-> n, b |-> 1]
MaxC(n)       == [kind |-> "Max", a |-> n, b |-> 1]

\* The assertion with `<` in place of `<=`.
ensure_percentages_less_than_100_Strict(widths) ==
    \A i \in 1..Len(widths) :
        widths[i].kind = "Percentage" => widths[i].a < 100

\* fn ensure_percentages_less_than_100(widths): TRUE when the assertion passes.
ensure_percentages_less_than_100(widths) ==
    \A i \in 1..Len(widths) :
        widths[i].kind = "Percentage" => widths[i].a <= 100

\* ------------------------------------------------------------ splitter
\* Boundary positions are fractions over one common denominator: 100 for a
\* Percentage, the (non-zero) denominator of a Ratio.
Denominator(c) ==
    CASE c.kind = "Percentage" -> 100
      [] c.kind = "Ratio" -> Max2(c.b, 1)
      [] OTHER -> 1

RECURSIVE CommonDenominator(_, _)
CommonDenominator(constraints, k) ==
    IF k = 0 THEN 1
    ELSE Denominator(constraints[k]) * CommonDenominator(constraints, k - 1)

\* n/den rounded to the nearest integer, a tie to the even one.
Round(n, den) ==
    LET q == n \div den
        r == n % den
    IN  IF 2 * r < den THEN q
        ELSE IF 2 * r > den THEN q + 1
        ELSE IF q % 2 = 0 THEN q ELSE q + 1

\* The length a constraint asks for in an extent of length L, times den.
Desired(c, L, den) ==
    IF c.kind \in {"Percentage", "Ratio"}
    THEN L * c.a * (den \div Denominator(c))
    ELSE c.a * den

RECURSIVE SumSizes(_, _)
SumSizes(sizes, k) == IF k = 0 THEN 0 ELSE SumSizes(sizes, k - 1) + sizes[k]

\* The cumulative boundaries (times den) after the first 1..k segments, each
\* capped at the end of the extent.
RECURSIVE Boundaries(_, _, _)
Boundaries(sizes, k, cap) ==
    IF k = 0 THEN << >>
    ELSE LET before == Boundaries(sizes, k - 1, cap)
             at == IF k = 1 THEN 0 ELSE before[k - 1]
         IN  Append(before, Min2(at + sizes[k], cap))

\* Segments with every length rounded on its own and the offsets summed from the
\* rounded lengths.
Segments_RoundedSizes(sizes, L, den) ==
    LET rounded == Collect([k \in 1..Len(sizes) |-> Round(sizes[k], den)])
    IN  Collect([k \in 1..Len(sizes) |->
            LET lo == Min2(L, SumSizes(rounded, k - 1))
            IN  [offset |-> lo, length |-> Min2(L, SumSizes(rounded, k)) - lo]])

\* Segments from the lengths asked for: each boundary rounded on its own, each
\* length the difference of two consecutive rounded boundaries.
Segments(sizes, L, den) ==
    LET bounds == Boundaries(sizes, Len(sizes), L * den)
        rounded == Collect([k \in 1..Len(sizes) |-> Round(bounds[k], den)])
    IN  Collect([k \in 1..Len(sizes) |->
            LET lo == IF k = 1 THEN 0 ELSE rounded[k - 1]
            IN  [offset |-> lo, length |-> rounded[k] - lo]])

\* The segments with the last one stretched to the end of the extent.
StretchLast(segs, L) ==
    [k \in 1..Len(segs) |->
        IF k = Len(segs)
        THEN [offset |-> segs[k].offset, length |-> L - segs[k].offset]
        ELSE segs[k]]

\* The order in which constraints are served when the extent is too short for all:
\* Min first, then Length, Percentage and Ratio, then Max; left to right in each.
Priority(c) == CASE c.kind = "Min" -> 1 [] c.kind = "Max" -> 3 [] OTHER -> 2
ServedBefore(constraints, j, k) ==
    \/ Priority(constraints[j]) < Priority(constraints[k])
    \/ Priority(constraints[j]) = Priority(constraints[k]) /\ j < k

\* What the constraints served before constraint k ask for together (times den).
RECURSIVE AskedBefore(_, _, _, _, _)
AskedBefore(constraints, k, j, L, den) ==
    IF j = 0 THEN 0
    ELSE AskedBefore(constraints, k, j - 1, L, den)
         + (IF ServedBefore(constraints, j, k) THEN Desired(constraints[j], L, den) ELSE 0)

\* The length every constraint is granted (times den): what it asks for, or what
\* the constraints served before it have left of the extent.
Granted(constraints, L, den) ==
    Collect([k \in 1..Len(constraints) |->
        Min2(Desired(constraints[k], L, den),
             L * den - Min2(L * den, AskedBefore(constraints, k, Len(constraints), L, den)))])

\* The slack shared out one unit at a time, each unit to the first of the shortest
\* segments that may grow (the Min ones); segments of fixed size keep it.
RECURSIVE Levelled(_, _, _, _)
Levelled(constraints, sizes, slack, den) ==
    LET growable == {k \in 1..Len(sizes) : constraints[k].kind = "Min"}
    IN  IF slack < den \/ growable = {} THEN sizes
        ELSE LET k == CHOOSE i \in growable :
                          \A j \in growable :
                              sizes[i] < sizes[j] \/ (sizes[i] = sizes[j] /\ i <= j)
             IN  Levelled(constraints, [sizes EXCEPT ![k] = @ + den], slack - den, den)

\* Layout::split of the extent [0, L): SegmentSize::None leaves the slack unused,
\* SegmentSize::LastTakesRemainder gives it to the last segment,
\* SegmentSize::EvenDistribution levels the segments that may grow.
Split(constraints, L, segment_size) ==
    LET den   == CommonDenominator(constraints, Len(constraints))
        sizes == Granted(constraints, L, den)
        slack == L * den - SumSizes(sizes, Len(sizes))
        segs  == Segments(IF segment_size = "EvenDistribution"
                          THEN Levelled(constraints, sizes, slack, den) ELSE sizes,
                          L, den)
    IN  IF segment_size = "LastTakesRemainder" THEN StretchLast(segs, L) ELSE segs

RECURSIVE SumLengths(_, _)
SumLengths(constraints, k) ==
    IF k = 0 THEN 0 ELSE SumLengths(constraints, k - 1) + constraints[k].a

\* Layout::split of the table area's height: the fixed bands keep their length and
\* Min(0), the body, consumes what is left.
SplitVertical(constraints, L) ==
    LET fixed == SumLengths(constraints, Len(constraints))
    IN  Segments([k \in 1..Len(constraints) |->
                     IF constraints[k].kind = "Min"
                     THEN saturating_sub(L, fixed)
                     ELSE constraints[k].a], L, 1)

\* ----------------------------------------------------------------- Rect
Rect(x, y, w, h) == [x |-> x, y |-> y, width |-> w, height |-> h]

\* Rect::is_empty
is_empty(r) == r.width = 0 \/ r.height = 0

\* The positions of a rectangle, and whether position p is one of them.
Cells(r) == (r.x .. r.x + r.width - 1) \X (r.y .. r.y + r.height - 1)
InRect(p, r) ==
    /\ r.x <= p[1] /\ p[1] < r.x + r.width
    /\ r.y <= p[2] /\ p[2] < r.y + r.height

\* Whether rectangle r lies inside rectangle o (an empty r lies inside any).
Inside(r, o) ==
    is_empty(r) \/ (/\ o.x <= r.x /\ r.x + r.width <= o.x + o.width
                    /\ o.y <= r.y /\ r.y + r.height <= o.y + o.height)

\* --------------------------------------------------------------- Table
\* Table::default(): no rows, no widths, SegmentSize's default.
DefaultTable ==
    [rows |-> << >>, header |-> None, footer |-> None, widths |-> << >>,
     column_spacing |-> 0, block |-> None, style |-> "reset",
     highlight_style |-> "reset", highlight_symbol |-> None,
     highlight_spacing |-> "WhenSelected", segment_size |-> "LastTakesRemainder"]

\* TableState::default()
DefaultState == [offset |-> 0, selected |-> None]

\* HighlightSpacing::should_add
should_add(highlight_spacing, has_selection) ==
    CASE highlight_spacing = "Always" -> TRUE
      [] highlight_spacing = "WhenSelected" -> has_selection
      [] OTHER -> FALSE

\* selection_width that looks at the selection alone, whatever the highlight spacing.
selection_width_SelectionOnly(table, st) ==
    IF st.selected # None
    THEN IF table.highlight_symbol = None THEN 0 ELSE table.highlight_symbol[1]
    ELSE 0

\* Table::selection_width; a highlight symbol is modelled by its display width.
selection_width(table, st) ==
    IF should_add(table.highlight_spacing, st.selected # None)
    THEN IF table.highlight_symbol = None THEN 0 ELSE table.highlight_symbol[1]
    ELSE 0

\* The largest number of cells over the rows, the header and the footer (0 if none).
RECURSIVE MaxCells(_, _)
MaxCells(rows, k) ==
    IF k = 0 THEN 0 ELSE Max2(rows[k].cells, MaxCells(rows, k - 1))

col_count(table) ==
    Max2(MaxCells(table.rows, Len(table.rows)),
         Max2(IF table.header = None THEN 0 ELSE table.header[1].cells,
              IF table.footer = None THEN 0 ELSE table.footer[1].cells))

\* The derived widths computed without taking the spacing off the width.
column_constraints_SpacingIgnored(table, max_width) ==
    IF table.widths = << >>
    THEN LET n == col_count(table)
         IN  [k \in 1..n |-> Length(max_width \div Max2(n, 1))]
    ELSE table.widths

\* The widths get_columns_widths lays out: the configured ones, or equal widths
\* derived from the number of columns when none are configured.
column_constraints(table, max_width) ==
    IF table.widths = << >>
    THEN LET n == col_count(table)
             total_space ==
                 saturating_sub(max_width,
                                Wrap16(table.column_spacing * Wrap16(saturating_sub(n, 1))))
         IN  Collect([k \in 1..n |-> Length(total_space \div Wrap16(Max2(n, 1)))])
    ELSE table.widths

\* Whether `self.column_spacing * col_count.saturating_sub(1) as u16` overflows.
spacing_overflows(table) ==
    /\ table.widths = << >>
    /\ Overflows(table.column_spacing * Wrap16(saturating_sub(col_count(table), 1)))

\* The constraints with Min(spacing) between the columns in place of Length(spacing).
interspersed_MinSpacing(widths, sel_width, column_spacing) ==
    Collect([k \in 1..(IF Len(widths) = 0 THEN 1 ELSE 2 * Len(widths)) |->
        IF k = 1 THEN Length(sel_width)
        ELSE IF k % 2 = 0 THEN widths[k \div 2]
        ELSE MinC(column_spacing)])

\* The constraints with Min(selection_width) for the gutter in place of
\* Length(selection_width).
interspersed_MinGutter(widths, sel_width, column_spacing) ==
    Collect([k \in 1..(IF Len(widths) = 0 THEN 1 ELSE 2 * Len(widths)) |->
        IF k = 1 THEN MinC(sel_width)
        ELSE IF k % 2 = 0 THEN widths[k \div 2]
        ELSE Length(column_spacing)])

\* iter::once(Length(selection_width)).chain(intersperse(widths, Length(spacing)))
interspersed(widths, sel_width, column_spacing) ==
    Collect([k \in 1..(IF Len(widths) = 0 THEN 1 ELSE 2 * Len(widths)) |->
        IF k = 1 THEN Length(sel_width)
        ELSE IF k % 2 = 0 THEN widths[k \div 2]
        ELSE Length(column_spacing)])

\* get_columns_widths with every segment's right edge in place of its width.
get_columns_widths_RightForWidth(table, max_width, sel_width) ==
    LET widths == column_constraints(table, max_width)
        segs   == Split(interspersed(widths, sel_width, table.column_spacing),
                        max_width, table.segment_size)
    IN  Collect([i \in 1..Len(widths) |->
                    <<segs[2 * i].offset, segs[2 * i].offset + segs[2 * i].length>>])

\* get_columns_widths with the table's segment_size left out of the split: the
\* layout's own default, LastTakesRemainder, applies.
get_columns_widths_DefaultSegmentSize(table, max_width, sel_width) ==
    LET widths == column_constraints(table, max_width)
        segs   == Split(interspersed(widths, sel_width, table.column_spacing),
                        max_width, "LastTakesRemainder")
    IN  Collect([i \in 1..Len(widths) |-> <<segs[2 * i].offset, segs[2 * i].length>>])

\* get_columns_widths with the split left to SegmentSize::None whatever the table's
\* segment_size.
get_columns_widths_SegmentSizeNone(table, max_width, sel_width) ==
    LET widths == column_constraints(table, max_width)
        segs   == Split(interspersed(widths, sel_width, table.column_spacing),
                        max_width, "None")
    IN  Collect([i \in 1..Len(widths) |-> <<segs[2 * i].offset, segs[2 * i].length>>])

\* get_columns_widths without `.skip(1)`: the selection column is taken for the
\* first column.
get_columns_widths_GutterKept(table, max_width, sel_width) ==
    LET widths == column_constraints(table, max_width)
        segs   == Split(interspersed(widths, sel_width, table.column_spacing),
                        max_width, table.segment_size)
    IN  Collect([i \in 1..Len(widths) |->
                    <<segs[2 * i - 1].offset, segs[2 * i - 1].length>>])

\* Table::get_columns_widths: the (x, width) of every content column.
get_columns_widths(table, max_width, sel_width) ==
    LET widths == column_constraints(table, max_width)
        segs   == Split(interspersed(widths, sel_width, table.column_spacing),
                        max_width, table.segment_size)
    IN  Collect([i \in 1..Len(widths) |-> <<segs[2 * i].offset, segs[2 * i].length>>])

\* Table::layout with the footer's two margins taken for one another.
layout_FooterMarginsSwapped(table, area) ==
    LET h == table.header
        f == table.footer
        segs == SplitVertical(
                    << Length(IF h = None THEN 0 ELSE h[1].top_margin),
                       Length(IF h = None THEN 0 ELSE h[1].height),
                       Length(IF h = None THEN 0 ELSE h[1].bottom_margin),
                       MinC(0),
                       Length(IF f = None THEN 0 ELSE f[1].bottom_margin),
                       Length(IF f = None THEN 0 ELSE f[1].height),
                       Length(IF f = None THEN 0 ELSE f[1].top_margin) >>,
                    area.height)
        band(k) == Rect(area.x, area.y + segs[k].offset, area.width, segs[k].length)
    IN  [header_area |-> band(2), rows_area |-> band(4), footer_area |-> band(6)]

\* Table::layout: the header, rows and footer areas of the table area.
layout(table, area) ==
    LET h == table.header
        f == table.footer
        segs == SplitVertical(
                    << Length(IF h = None THEN 0 ELSE h[1].top_margin),
                       Length(IF h = None THEN 0 ELSE h[1].height),
                       Length(IF h = None THEN 0 ELSE h[1].bottom_margin),
                       MinC(0),
                       Length(IF f = None THEN 0 ELSE f[1].top_margin),
                       Length(IF f = None THEN 0 ELSE f[1].height),
                       Length(IF f = None THEN 0 ELSE f[1].bottom_margin) >>,
                    area.height)
        band(k) == Rect(area.x, area.y + segs[k].offset, area.width, segs[k].length)
    IN  [header_area |-> band(2), rows_area |-> band(4), footer_area |-> band(6)]

\* -------------------------------------------------------------- buffer
\* The buffer of a frame: as wide and as high as the largest area a table is rendered
\* into, every cell blank and in the default style before the table is rendered.
BufferArea == Rect(0, 0, Max2(MaxWidth, MaxLayoutWidth), MaxHeight)
EmptyBuffer == [p \in Cells(BufferArea) |-> [symbol |-> << " " >>, style |-> "reset"]]

\* ------------------------------------------------------------ drawing
\* The writes a render makes to the buffer, in order. The owner of a cell is the
\* header, the footer or the row (by index) it belongs to.
Owner(kind, index) == [kind |-> kind, index |-> index]
NoOwner == Owner("none", 0)
\* Buffer::set_style(area, style), for the table, the header, the footer, row
\* `owner` or the highlight of row `owner`
SetStyle(area, style, owner) ==
    [op |-> "set_style", rect |-> area, style |-> style, owner |-> owner, col |-> 0]
\* Cell::render(area, buf) of cell number col of the header, the footer or row `owner`
CellRender(area, owner, col) ==
    [op |-> "cell", rect |-> area, style |-> "reset", owner |-> owner, col |-> col]
\* Buffer::set_stringn(x, y, symbol, max_width, style) of a symbol `width` wide
SetStringn(x, y, width, max_width, style) ==
    [op |-> "symbol", rect |-> Rect(x, y, Min2(width, max_width), 1),
     style |-> style, owner |-> NoOwner, col |-> 0]
\* Block::render(area, buf)
BlockRender(area) ==
    [op |-> "block", rect |-> area, style |-> "reset", owner |-> NoOwner, col |-> 0]

\* A cell drawn for every column, whatever the number of cells of the row.
render_cells_EveryColumn(area, owner, row, column_widths) ==
    [i \in 1..Len(column_widths) |->
        CellRender(Rect(area.x + column_widths[i][1], area.y,
                        column_widths[i][2], area.height),
                   owner, i - 1)]

\* for ((x, width), cell) in column_widths.iter().zip(row.cells.iter()) {
\*     cell.render(Rect::new(area.x + x, area.y, *width, area.height), buf); }
render_cells(area, owner, row, column_widths) ==
    Collect([i \in 1..Min2(Len(column_widths), row.cells) |->
        CellRender(Rect(area.x + column_widths[i][1], area.y,
                        column_widths[i][2], area.height),
                   owner, i - 1)])

\* Table::render_header
render_header(table, area, column_widths) ==
    IF table.header = None THEN << >>
    ELSE << SetStyle(area, table.header[1].style, Owner("header", 0)) >>
         \o render_cells(area, Owner("header", 0), table.header[1], column_widths)

\* Table::render_footer
render_footer(table, area, column_widths) ==
    IF table.footer = None THEN << >>
    ELSE << SetStyle(area, table.footer[1].style, Owner("footer", 0)) >>
         \o render_cells(area, Owner("footer", 0), table.footer[1], column_widths)

\* One row with the highlight style painted right after the row's own style, before
\* the symbol and the cells.
render_row_HighlightFirst(table, area, selected, sel_width, column_widths, i, y_offset) ==
    LET row == table.rows[i + 1]
        row_area == Rect(area.x, Wrap16(Wrap16(area.y + y_offset) + row.top_margin),
                         area.width, height_with_margin(row) - row.top_margin)
        is_selected == selected # None /\ selected[1] = i
    IN  << SetStyle(row_area, row.style, Owner("row", i)) >>
        \o (IF is_selected
            THEN << SetStyle(row_area, table.highlight_style, Owner("highlight", i)) >>
            ELSE << >>)
        \o (IF sel_width > 0 /\ is_selected
            THEN << SetStringn(row_area.x, row_area.y,
                               IF table.highlight_symbol = None THEN 0
                               ELSE table.highlight_symbol[1],
                               area.width, row.style) >>
            ELSE << >>)
        \o render_cells(row_area, Owner("row", i), row, column_widths)

\* The body of render_rows' loop for row i drawn y_offset lines below the top of
\* the rows area.
render_row(table, area, selected, sel_width, column_widths, i, y_offset) ==
    LET row == table.rows[i + 1]
        row_area == Rect(area.x, Wrap16(Wrap16(area.y + y_offset) + row.top_margin),
                         area.width, height_with_margin(row) - row.top_margin)
        is_selected == selected # None /\ selected[1] = i
    IN  << SetStyle(row_area, row.style, Owner("row", i)) >>
        \o (IF sel_width > 0 /\ is_selected
            THEN << SetStringn(row_area.x, row_area.y,
                               IF table.highlight_symbol = None THEN 0
                               ELSE table.highlight_symbol[1],
                               area.width, row.style) >>
            ELSE << >>)
        \o render_cells(row_area, Owner("row", i), row, column_widths)
        \o (IF is_selected
            THEN << SetStyle(row_area, table.highlight_style, Owner("highlight", i)) >>
            ELSE << >>)

\* for (i, row) in self.rows.iter().enumerate().skip(state.offset)
\*     .take(end_index - start_index) { ...; y_offset += row.height_with_margin(); }
RECURSIVE rows_loop(_, _, _, _, _, _, _, _)
rows_loop(table, area, selected, sel_width, column_widths, i, end_index, y_offset) ==
    IF i >= end_index \/ i >= Len(table.rows) THEN << >>
    ELSE render_row(table, area, selected, sel_width, column_widths, i, y_offset)
         \o rows_loop(table, area, selected, sel_width, column_widths, i + 1,
                      end_index, Wrap16(y_offset + height_with_margin(table.rows[i + 1])))

\* Whether `area.y + y_offset + row.top_margin` or `y_offset += ..` overflows for one
\* of the rows i..end_index-1.
RECURSIVE rows_overflow(_, _, _, _, _)
rows_overflow(table, area, i, end_index, y_offset) ==
    IF i >= end_index \/ i >= Len(table.rows) THEN FALSE
    ELSE LET row == table.rows[i + 1]
         IN  \/ Overflows(area.y + y_offset)
             \/ Overflows(Wrap16(area.y + y_offset) + row.top_margin)
             \/ Overflows(y_offset + height_with_margin(row))
             \/ rows_overflow(table, area, i + 1, end_index,
                              Wrap16(y_offset + height_with_margin(row)))

\* render_rows computing its window from row 0 instead of the stored offset.
render_rows_FromRowZero(table, area, st, sel_width, column_widths) ==
    IF table.rows = << >>
    THEN [state |-> st, draws |-> << >>, windowed |-> FALSE,
          window |-> Win(0, 0, 0, FALSE), offset_in |-> 0, overflow |-> FALSE]
    ELSE LET offset_in == 0
             w == get_row_bounds(table.rows, st.selected, offset_in, area.height)
             new == [st EXCEPT !.offset = w.start]
         IN  [state |-> new,
              draws |-> rows_loop(table, area, new.selected, sel_width, column_widths,
                                  new.offset, new.offset + (w.end - w.start), 0),
              windowed |-> TRUE, window |-> w, offset_in |-> offset_in,
              overflow |-> rows_overflow(table, area, new.offset,
                                         new.offset + (w.end - w.start), 0)]

\* render_rows writing the selection it clamped for the window back to the state.
render_rows_StoresSelection(table, area, st, sel_width, column_widths) ==
    IF table.rows = << >>
    THEN [state |-> st, draws |-> << >>, windowed |-> FALSE,
          window |-> Win(0, 0, 0, FALSE), offset_in |-> 0, overflow |-> FALSE]
    ELSE LET offset_in == st.offset
             w == get_row_bounds(table.rows, st.selected, offset_in, area.height)
             new == [offset |-> w.start,
                     selected |-> Some(ClampSelected(table.rows, st.selected))]
         IN  [state |-> new,
              draws |-> rows_loop(table, area, new.selected, sel_width, column_widths,
                                  new.offset, new.offset + (w.end - w.start), 0),
              windowed |-> TRUE, window |-> w, offset_in |-> offset_in,
              overflow |-> rows_overflow(table, area, new.offset,
                                         new.offset + (w.end - w.start), 0)]

\* render_rows clamping and storing the offset before it looks at the rows.
render_rows_StoresBeforeCheck(table, area, st, sel_width, column_widths) ==
    IF table.rows = << >>
    THEN [state |-> [st EXCEPT !.offset = ClampOffset(table.rows, st.offset)],
          draws |-> << >>, windowed |-> FALSE,
          window |-> Win(0, 0, 0, FALSE), offset_in |-> 0, overflow |-> FALSE]
    ELSE LET offset_in == st.offset
             w == get_row_bounds(table.rows, st.selected, offset_in, area.height)
             new == [st EXCEPT !.offset = w.start]
         IN  [state |-> new,
              draws |-> rows_loop(table, area, new.selected, sel_width, column_widths,
                                  new.offset, new.offset + (w.end - w.start), 0),
              windowed |-> TRUE, window |-> w, offset_in |-> offset_in,
              overflow |-> rows_overflow(table, area, new.offset,
                                         new.offset + (w.end - w.start), 0)]

\* Table::render_rows: the TableState it leaves, what it draws and the window.
render_rows(table, area, st, sel_width, column_widths) ==
    IF table.rows = << >>
    THEN [state |-> st, draws |-> << >>, windowed |-> FALSE,
          window |-> Win(0, 0, 0, FALSE), offset_in |-> 0, overflow |-> FALSE]
    ELSE LET offset_in == st.offset
             w == get_row_bounds(table.rows, st.selected, offset_in, area.height)
             new == [st EXCEPT !.offset = w.start]
         IN  [state |-> new,
              draws |-> rows_loop(table, area, new.selected, sel_width, column_widths,
                                  new.offset, new.offset + (w.end - w.start), 0),
              windowed |-> TRUE, window |-> w, offset_in |-> offset_in,
              overflow |-> rows_overflow(table, area, new.offset,
                                         new.offset + (w.end - w.start), 0)]

\* Block::inner of a block with all four borders.
inner(area) ==
    Rect(Min2(area.x + 1, area.x + area.width), Min2(area.y + 1, area.y + area.height),
         saturating_sub(area.width, 2), saturating_sub(area.height, 2))

\* Table::render_block: the table area and what the block draws.
render_block(table, area) ==
    IF table.block = None THEN [area |-> area, draws |-> << >>]
    ELSE [area |-> inner(area), draws |-> << BlockRender(area) >>]

\* The base style painted over the whole buffer instead of the table's area.
paint_base_WholeBuffer(table, area) ==
    << SetStyle(BufferArea, table.style, Owner("table", 0)) >>

\* buf.set_style(area, self.style): the base style, painted first.
paint_base(table, area) == << SetStyle(area, table.style, Owner("table", 0)) >>

\* StatefulWidget::render for Table: the TableState it leaves, the writes it makes
\* and the areas and column positions it computed on the way.
render(table, area, st) ==
    LET blk == render_block(table, area)
        table_area == blk.area
    IN  IF is_empty(table_area)
        THEN [state |-> st, draws |-> paint_base(table, area) \o blk.draws,
              early |-> TRUE, area |-> area, table_area |-> table_area,
              header_area |-> Rect(0, 0, 0, 0), rows_area |-> Rect(0, 0, 0, 0),
              footer_area |-> Rect(0, 0, 0, 0),
              selection_width |-> 0, columns_widths |-> << >>, windowed |-> FALSE,
              window |-> Win(0, 0, 0, FALSE), offset_in |-> 0, before |-> st,
              overflow |-> [columns |-> FALSE, window |-> FALSE, rows |-> FALSE]]
        ELSE LET sw   == selection_width(table, st)
                 cols == get_columns_widths(table, table_area.width, sw)
                 lay  == layout(table, table_area)
                 body == render_rows(table, lay.rows_area, st, sw, cols)
             IN  [state |-> body.state,
                  draws |-> paint_base(table, area) \o blk.draws
                            \o render_header(table, lay.header_area, cols)
                            \o body.draws
                            \o render_footer(table, lay.footer_area, cols),
                  early |-> FALSE, area |-> area, table_area |-> table_area,
                  header_area |-> lay.header_area, rows_area |-> lay.rows_area,
                  footer_area |-> lay.footer_area,
                  selection_width |-> sw, columns_widths |-> cols,
                  windowed |-> body.windowed, window |-> body.window,
                  offset_in |-> body.offset_in, before |-> st,
                  overflow |-> [columns |-> spacing_overflows(table),
                                window |-> body.window.overflow,
                                rows |-> body.overflow]]

\* ------------------------------------------------------ buffer writes
\* One write applied to the buffer; positions outside the buffer are clipped and
\* the default style ("reset") patches nothing.
ApplyDraw(b, d) ==
    [p \in DOMAIN b |->
        IF ~InRect(p, d.rect) THEN b[p]
        ELSE CASE d.op = "set_style" ->
                    IF d.style = "reset" THEN b[p] ELSE [b[p] EXCEPT !.style = d.style]
               [] d.op = "cell" -> [b[p] EXCEPT !.symbol = << "cell", d.owner.kind, d.owner.index, d.col >>]
               [] d.op = "symbol" ->
                    [symbol |-> <<"highlight_symbol">>,
                     style |-> IF d.style = "reset" THEN b[p].style ELSE d.style]
               [] OTHER ->
                    IF \/ p[1] \in {d.rect.x, d.rect.x + d.rect.width - 1}
                       \/ p[2] \in {d.rect.y, d.rect.y + d.rect.height - 1}
                    THEN [b[p] EXCEPT !.symbol = <<"border">>]
                    ELSE b[p]]

RECURSIVE ApplyDraws(_, _, _)
ApplyDraws(b, draws, k) ==
    IF k = 0 THEN b ELSE ApplyDraw(ApplyDraws(b, draws, k - 1), draws[k])

\* ------------------------------------------------------- configurations
\* The rows the tables are built from: a plain row, a tall row with a bottom margin
\* and a row with a top margin, and rows of one and of three cells.
WindowRows ==
    {Row(1, 0, 0, 2, "row"), Row(2, 0, 1, 2, "row"), Row(1, 1, 0, 2, "row")}
ColumnRows == {Row(1, 0, 0, 1, "row"), Row(1, 0, 0, 3, "row")}
Headers == {None, Some(Row(1, 0, 0, 2, "header"))}
Footers == {None, Some(Row(1, 0, 0, 3, "footer"))}

\* The sequences over S of length 0..n.
SeqsUpTo(S, n) == UNION {[1..k -> S] : k \in 0..n}

\* The column widths a host passes to Table::new and Table::widths.
WidthLists ==
    {<< >>, <<Length(2), Length(2)>>, <<Percentage(100)>>,
     <<Length(1), Percentage(50), Length(1)>>,
     <<Percentage(101)>>, <<Length(2), Percentage(110)>>}

\* Table::new(rows, widths) with the header, footer, spacing and highlight set by the
\* fluent setters that follow it.
NewTable(rows, widths, header, footer, spacing, symbol, highlight_spacing) ==
    [DefaultTable EXCEPT
        !.rows = rows, !.widths = widths, !.header = header, !.footer = footer,
        !.column_spacing = spacing, !.style = "base", !.highlight_style = "highlight",
        !.highlight_symbol = symbol, !.highlight_spacing = highlight_spacing,
        !.segment_size = "None"]

\* Tables that differ in their rows' heights and margins.
WindowTables ==
    {NewTable(rows, <<Length(2), Length(2)>>, header, None, 1, Some(2), "WhenSelected") :
        rows \in SeqsUpTo(WindowRows, MaxRows), header \in Headers}

\* Tables that differ in their columns: cells per row, header, footer, widths,
\* spacing and highlight spacing.
ColumnTables ==
    {NewTable(rows, widths, header, footer, spacing, Some(2), hs) :
        rows \in SeqsUpTo(ColumnRows, MaxColumnRows), widths \in WidthLists,
        header \in Headers, footer \in Footers, spacing \in 0..1,
        hs \in {"Always", "WhenSelected", "Never"}}

\* The column constraints tables are laid out with: enough of each kind to fall
\* short of and to exceed the widths they are laid out in.
LayoutLists ==
    {<<Length(4), Length(4)>>, <<Length(2), Length(3), Length(1)>>,
     <<MinC(4), MinC(4)>>, <<MinC(4), MinC(1)>>, <<MaxC(4), MaxC(4)>>,
     <<Percentage(30), Percentage(30)>>, <<Ratio(1, 3), Ratio(1, 3)>>,
     <<Length(2), MinC(3)>>, <<Percentage(50), MaxC(2)>>}

\* SegmentSize::EvenDistribution is modelled for columns that may all grow.
SegmentSizes(widths) ==
    {"None", "LastTakesRemainder"}
        \cup (IF \A k \in 1..Len(widths) : widths[k].kind = "Min"
              THEN {"EvenDistribution"} ELSE {})

\* Table::new(rows, widths).segment_size(..) with one row, laid out under every
\* policy, with and without spacing and a highlight symbol three columns wide.
LayoutTables ==
    {[NewTable(<< Row(1, 0, 0, 2, "row") >>, widths, None, None, spacing, symbol, hs)
        EXCEPT !.segment_size = segment_size] :
        widths \in LayoutLists, spacing \in 0..1, symbol \in {None, Some(3)},
        hs \in {"Always", "WhenSelected", "Never"},
        segment_size \in {"None", "LastTakesRemainder", "EvenDistribution"}}
LayoutAreas == {Rect(0, 0, w, 1) : w \in 0..MaxLayoutWidth}

\* Headers and footers one or two lines high, with and without a margin above and
\* below, and the tables of one row that have them.
BandRows(style) ==
    {Row(h, tm, bm, 2, style) : h \in 1..2, tm \in 0..1, bm \in 0..1}
BandTables ==
    {NewTable(<< Row(1, 0, 0, 2, "row") >>, <<Length(2), Length(2)>>, header, footer,
              1, None, "WhenSelected") :
        header \in {None} \cup {Some(r) : r \in BandRows("header")},
        footer \in {None} \cup {Some(r) : r \in BandRows("footer")}}

\* Tables with no row or one, with and without a header, a footer and a bordered
\* block.
EarlyTables ==
    {[NewTable(rows, <<Length(2), Length(2)>>, header, footer, 1, Some(2),
               "WhenSelected") EXCEPT !.block = block] :
        rows \in SeqsUpTo({Row(1, 0, 0, 2, "row")}, 1),
        header \in Headers, footer \in Footers, block \in {None, Some("bordered")}}

\* Rows, spacings and tables at the ends of the u16 range: margins of u16::MAX, a
\* spacing of u16::MAX, widths given or derived from one or three cells per row.
ExtremeRows ==
    {Row(1, 0, 0, 1, "row"), Row(1, 0, U16Max, 3, "row"), Row(1, U16Max, 0, 3, "row")}
ExtremeTables ==
    {NewTable(rows, widths, None, None, spacing, Some(2), "WhenSelected") :
        rows \in SeqsUpTo(ExtremeRows, MaxColumnRows),
        widths \in {<< >>, <<Length(2), Length(2)>>}, spacing \in {1, U16Max}}

\* The areas a table is rendered into, inside the buffer: of every height, and of
\* every width.
WindowAreas ==
    {Rect(0, 0, 0, MaxHeight)} \cup {Rect(0, 0, MaxWidth, h) : h \in 0..MaxHeight}
ColumnAreas ==
    {Rect(0, 0, MaxWidth, 0)} \cup {Rect(0, 0, w, MaxHeight) : w \in 0..MaxWidth}

\* --------------------------------------------------------------- state
VARIABLES
    table,      \* the Table the host has built
    state,      \* the TableState the host keeps across frames
    frame,      \* what the last render call computed and drew; NoFrame after a
                \* host step
    prev,       \* the window and area of the frame before, kept while the host's
                \* only step since is to select the row just past that window and
                \* the next frame has the same area; the offset the frame before
                \* moved to, when the host did nothing since and the area is the same
    attempt,    \* the widths last passed to Table::new or Table::widths
    panicked,   \* a configuration assertion failed: the program is gone
    last        \* the operation that led to this state

vars == <<table, state, frame, prev, attempt, panicked, last>>

NoFrame == render(DefaultTable, Rect(0, 0, 0, 0), DefaultState)
NoPrev == [valid |-> FALSE, start |-> 0, end |-> 0, area |-> Rect(0, 0, 0, 0),
           stored |-> None]

\* The buffer after the last frame: its writes applied in order to an empty buffer.
Buffer == ApplyDraws(EmptyBuffer, frame.draws, Len(frame.draws))

Init ==
    /\ table = DefaultTable
    /\ state = DefaultState
    /\ frame = NoFrame
    /\ prev = NoPrev
    /\ attempt = << >>
    /\ panicked = FALSE
    /\ last = "init"

\* Table::new(rows, widths) and the setters chained to it: the widths are checked
\* and the table is built, or the assertion fails.
New(t) ==
    /\ last = "init"
    /\ attempt' = t.widths
    /\ IF ensure_percentages_less_than_100(t.widths)
       THEN table' = t /\ panicked' = FALSE
       ELSE table' = table /\ panicked' = TRUE
    /\ last' = "new"
    /\ UNCHANGED <<state, frame, prev>>

\* Table::widths(widths) on a table built without widths.
Widths(widths) ==
    /\ last = "new" /\ ~panicked
    /\ table.widths = << >>
    /\ attempt' = widths
    /\ IF ensure_percentages_less_than_100(widths)
       THEN table' = [table EXCEPT !.widths = widths] /\ panicked' = FALSE
       ELSE table' = table /\ panicked' = TRUE
    /\ last' = "widths"
    /\ UNCHANGED <<state, frame, prev>>

\* The host selects a row, or none: TableState::select.
Select(selected) ==
    /\ last # "init" /\ ~panicked
    /\ state' = [state EXCEPT !.selected = selected]
    /\ prev' = IF /\ last = "render" /\ frame.windowed
                  /\ frame.window.end < Len(table.rows)
                  /\ selected = Some(frame.window.end)
               THEN [valid |-> TRUE, start |-> frame.window.start,
                     end |-> frame.window.end, area |-> frame.area, stored |-> None]
               ELSE NoPrev
    /\ frame' = NoFrame
    /\ last' = "select"
    /\ UNCHANGED <<table, attempt, panicked>>

\* The host starts from a TableState with an offset of its own:
\* TableState::default().with_offset(offset).
WithOffset(offset) ==
    /\ last = "new" /\ ~panicked
    /\ state' = [state EXCEPT !.offset = offset]
    /\ last' = "with_offset"
    /\ UNCHANGED <<table, frame, prev, attempt, panicked>>

\* One frame: the table is rendered into `area` of a fresh buffer.
Render(area) ==
    /\ last # "init" /\ ~panicked
    /\ LET r == render(table, area, state) IN
        /\ frame' = r
        /\ state' = r.state
    /\ prev' = IF last = "select" /\ prev.valid /\ prev.area = area THEN prev
               ELSE IF /\ last = "render" /\ frame.windowed /\ frame.area = area
                       /\ state.offset # frame.before.offset
                    THEN [NoPrev EXCEPT !.stored = Some(state.offset)]
               ELSE NoPrev
    /\ last' = "render"
    /\ UNCHANGED <<table, attempt, panicked>>

\* One frame of a build with overflow checks in which a u16 `+` or `*` overflows: the
\* render panics, before the offset is stored if the overflow is in
\* get_columns_widths or get_row_bounds, after it if it is in the loop over the rows.
Overflow(area) ==
    /\ last # "init" /\ ~panicked
    /\ \E r \in {render(table, area, state)} :
        /\ TRUE \in {r.overflow.columns, r.overflow.window, r.overflow.rows}
        /\ frame' = [NoFrame EXCEPT !.overflow = r.overflow]
        /\ state' = IF r.overflow.columns \/ r.overflow.window THEN state ELSE r.state
    /\ prev' = NoPrev
    /\ panicked' = TRUE
    /\ last' = "overflow"
    /\ UNCHANGED <<table, attempt>>

Selections == {None} \cup {Some(i) : i \in 0..MaxSelected}

\* The host scrolls through tables of rows of several heights and margins.
Next ==
    \/ last = "init" /\ \E t \in WindowTables : New(t)
    \/ \E selected \in Selections : Select(selected)
    \/ \E offset \in 0..MaxOffset : WithOffset(offset)
    \/ \E area \in WindowAreas : Render(area)

Spec == Init /\ [][Next]_vars

\* The host configures the columns of tables and renders them at several widths.
NextColumns ==
    \/ last = "init" /\ \E t \in ColumnTables : New(t)
    \/ last = "new" /\ \E widths \in WidthLists : Widths(widths)
    \/ \E selected \in {None, Some(0)} : Select(selected)
    \/ \E area \in ColumnAreas : Render(area)

SpecColumns == Init /\ [][NextColumns]_vars

\* The host lays out the columns of tables under every kind of constraint and
\* every SegmentSize, one line high, at several widths.
NextLayout ==
    \/ last = "init" /\ \E t \in LayoutTables :
          t.segment_size \in SegmentSizes(t.widths) /\ New(t)
    \/ \E selected \in {None, Some(0)} : Select(selected)
    \/ \E area \in LayoutAreas : Render(area)

SpecLayout == Init /\ [][NextLayout]_vars

\* The host renders tables with headers and footers of several heights and margins
\* at several heights.
NextBands ==
    \/ last = "init" /\ \E t \in BandTables : New(t)
    \/ \E selected \in {None, Some(0)} : Select(selected)
    \/ \E area \in WindowAreas : Render(area)

SpecBands == Init /\ [][NextBands]_vars

\* The host renders tables that may have no rows, in a block or not, into areas
\* the block may leave nothing of, from a TableState with an offset and a
\* selection of its own.
NextEarly ==
    \/ last = "init" /\ \E t \in EarlyTables : New(t)
    \/ \E selected \in {None, Some(0), Some(1)} : Select(selected)
    \/ \E offset \in 0..MaxOffset : WithOffset(offset)
    \/ \E area \in WindowAreas : Render(area)

SpecEarly == Init /\ [][NextEarly]_vars

\* The host renders tables whose margins and spacing are at the end of the u16 range.
\* Render is the frame of a build without overflow checks (an overflowing result
\* wraps), Overflow the frame of a build with them.
NextExtremes ==
    \/ last = "init" /\ \E t \in ExtremeTables : New(t)
    \/ \E selected \in {None, Some(0), Some(1)} : Select(selected)
    \/ \E area \in WindowAreas : Render(area)
    \/ \E area \in WindowAreas : Overflow(area)

SpecExtremes == Init /\ [][NextExtremes]_vars

\* ---------------------------------------------------------- properties
\* What the properties below speak of in the frame just rendered.
Rendered == last = "render"
Windowed == Rendered /\ frame.windowed
RowCount == Len(table.rows)
max_height == frame.rows_area.height

\* The selection render_rows passed to get_row_bounds, when it is a row of the table.
SelectedInRange ==
    /\ frame.before.selected # None
    /\ frame.before.selected[1] < RowCount
SelectedIndex == frame.before.selected[1]

\* The summed height_with_margin of rows s..e-1.
RECURSIVE WindowHeight(_, _, _)
WindowHeight(rows, s, e) ==
    IF s >= e THEN 0 ELSE height_with_margin(rows[s + 1]) + WindowHeight(rows, s + 1, e)

\* C1 as stated: for every row list, offset and max_height, a selection in range
\* lies inside the window get_row_bounds returns, start <= selected < end.
C1_SelectionInsideWindow ==
    (Windowed /\ SelectedInRange) =>
        /\ frame.window.start <= SelectedIndex
        /\ SelectedIndex < frame.window.end

\* C1, amended: a selection in range lies inside the window whenever max_height is
\* at least the selected row's height_with_margin; for any max_height the window does
\* not start after the selection nor end before it.
C1_SelectionInsideWindowWhenItFits ==
    (Windowed /\ SelectedInRange) =>
        /\ frame.window.start <= SelectedIndex
        /\ SelectedIndex <= frame.window.end
        /\ height_with_margin(table.rows[SelectedIndex + 1]) <= max_height
              => SelectedIndex < frame.window.end

\* C1's case: the selection fits and the window had to leave the stored offset to
\* contain it.
C1_Witness ==
    /\ Windowed /\ SelectedInRange
    /\ height_with_margin(table.rows[SelectedIndex + 1]) <= max_height
    /\ frame.window.start # frame.offset_in
    /\ frame.window.start <= SelectedIndex /\ SelectedIndex < frame.window.end

\* C2: the rows of the window get_row_bounds returns have a summed
\* height_with_margin of at most max_height.
C2_WindowFits ==
    Windowed => WindowHeight(table.rows, frame.window.start, frame.window.end) <= max_height

\* The indices of the rows a frame drew, in drawing order: each drawn row starts
\* with the write of its own style.
IsRowStart(d) == d.op = "set_style" /\ d.owner.kind = "row"
RowsDrawn(f) ==
    LET starts == SelectSeq(f.draws, IsRowStart)
    IN  [k \in 1..Len(starts) |-> starts[k].owner.index]

\* C3: a render that reaches the rows of a non-empty table computes its window from
\* the offset the TableState held when the frame began, stores the window's start
\* in state.offset and draws exactly the rows offset..end-1, in order.
C3_OffsetPersisted ==
    [][(last' = "render" /\ ~frame'.early /\ table.rows # << >>) =>
          /\ frame'.windowed
          /\ frame'.offset_in = state.offset
          /\ frame'.window =
                get_row_bounds(table.rows, state.selected, state.offset,
                               frame'.rows_area.height)
          /\ state'.offset = frame'.window.start
          /\ RowsDrawn(frame') =
                [k \in 1..(frame'.window.end - state'.offset) |-> state'.offset + k - 1]
      ]_vars

\* C3's case: a frame whose window was computed from a stored offset other than
\* row 0, and that drew rows.
C3_Witness ==
    /\ Windowed
    /\ frame.before.offset > 0
    /\ frame.offset_in = frame.before.offset
    /\ state.offset = frame.window.start
    /\ frame.window.start > 0
    /\ frame.window.end > frame.window.start
    /\ Len(RowsDrawn(frame)) = frame.window.end - frame.window.start

\* The second of two consecutive frames of the same table in the same area, the host
\* having selected, in between, the row just past the first frame's window
\* (prev.start, prev.end).
SecondFrame == Windowed /\ prev.valid

\* Rows k..prev.end, the newly selected row included, fit in max_height.
FitsFrom(k) == WindowHeight(table.rows, k, prev.end + 1) <= max_height

RenderedRows == Rendered /\ table.rows # << >>

\* The window the scan and the two scrolling loops give when started at `offset`.
WindowFrom(offset) ==
    LET sel == Min2(IF frame.before.selected = None THEN 0 ELSE frame.before.selected[1],
                    RowCount - 1)
        w1  == InitialScan(table.rows, Win(offset, offset, 0, FALSE), max_height)
    IN  ScrollUp(table.rows, ScrollDown(table.rows, w1, sel, max_height), sel, max_height)

\* C5 as stated: whatever offset the TableState holds, a render of a table with at
\* least one row computes the window from min(offset, row_count - 1) and leaves
\* state.offset <= row_count - 1.
C5_OffsetClamped ==
    RenderedRows =>
        /\ frame.windowed
        /\ frame.window = WindowFrom(Min2(frame.before.offset, RowCount - 1))
        /\ state.offset <= RowCount - 1

\* C5, amended: the same for a render into a non-empty table area; a render into an
\* empty one returns before it reaches the rows and leaves state.offset as it was.
C5_OffsetClampedWhenAreaNotEmpty ==
    RenderedRows =>
        IF frame.early
        THEN state.offset = frame.before.offset
        ELSE /\ frame.windowed
             /\ frame.window = WindowFrom(Min2(frame.before.offset, RowCount - 1))
             /\ state.offset <= RowCount - 1

\* C5's case: the TableState came with an offset past the last row and the render
\* brought it back into the table.
C5_Witness ==
    /\ RenderedRows /\ ~frame.early
    /\ frame.before.offset >= RowCount
    /\ frame.window = WindowFrom(RowCount - 1)
    /\ state.offset <= RowCount - 1

\* C6: no render changes state.selected, be it None, a row of the table or an index
\* past the last row; offset is the only field of the TableState a render writes.
C6_SelectedUntouched ==
    [][last' = "render" =>
          /\ state'.selected = state.selected
          /\ DOMAIN state' = {"offset", "selected"}
      ]_vars

\* C6's case: a render that moved the offset while the selection pointed past the
\* last row.
C6_Witness ==
    /\ Windowed
    /\ state.selected # None
    /\ state.selected[1] >= RowCount
    /\ state.selected = frame.before.selected
    /\ state.offset # frame.before.offset

\* Some width is a Percentage above 100.
PercentageAbove100(widths) ==
    \E i \in 1..Len(widths) : widths[i].kind = "Percentage" /\ widths[i].a > 100

\* C7: Table::new and Table::widths fail exactly when one of the widths they are
\* given is a Percentage above 100; otherwise the widths are stored as given, and
\* no table that is rendered holds a Percentage above 100.
C7_PercentagesChecked ==
    /\ last \in {"new", "widths"} =>
          /\ panicked <=> PercentageAbove100(attempt)
          /\ ~panicked => table.widths = attempt
    /\ Rendered => ~panicked /\ ~PercentageAbove100(table.widths)

\* C7's case: Table::widths was given a Percentage above 100 next to a valid width,
\* and failed.
C7_Witness ==
    /\ last = "widths"
    /\ attempt = <<Length(2), Percentage(110)>>
    /\ panicked

\* C8: rendering a table without a block into an area of width 0 or height 0 does
\* not fail and leaves every cell of the buffer as it was.
C8_EmptyAreaUntouched ==
    (Rendered /\ table.block = None /\ is_empty(frame.area)) =>
        /\ ~panicked /\ ~frame.window.panic
        /\ Buffer = EmptyBuffer

\* C8's case: a table with rows, a header and a footer rendered into an area that
\* is wide but of height 0.
C8_Witness ==
    /\ Rendered /\ table.block = None
    /\ frame.area.height = 0 /\ frame.area.width > 0
    /\ table.rows # << >> /\ table.header # None /\ table.footer # None
    /\ Buffer = EmptyBuffer

\* The cells a frame drew for the header, the footer or a row, in drawing order.
CellsDrawn(owner) ==
    SelectSeq(frame.draws, LAMBDA d : d.op = "cell" /\ d.owner = owner)

\* The cells drawn for `owner`, which has n cells and is drawn into `area`, are its
\* first min(columns, n) cells, cell i in column i of the frame.
CellsZipped(owner, n, area) ==
    LET cells == CellsDrawn(owner)
        cols  == frame.columns_widths
    IN  /\ Len(cells) = Min2(Len(cols), n)
        /\ \A k \in 1..Len(cells) :
              /\ cells[k].col = k - 1
              /\ cells[k].rect.x = area.x + cols[k][1]
              /\ cells[k].rect.width = cols[k][2]

\* C9: for the header, the footer and every row a frame draws, the cells drawn are
\* min(content columns, cells of the row) in number, cell i in column i's
\* (offset, width); cells beyond the columns are dropped, columns beyond the cells
\* get no cell, rows outside the window get none, and nothing fails.
C9_CellsZippedWithColumns ==
    (Rendered /\ ~frame.early) =>
        /\ ~panicked
        /\ table.header # None =>
              CellsZipped(Owner("header", 0), table.header[1].cells, frame.header_area)
        /\ table.footer # None =>
              CellsZipped(Owner("footer", 0), table.footer[1].cells, frame.footer_area)
        /\ \A i \in 0..(RowCount - 1) :
              IF frame.window.start <= i /\ i < frame.window.end
              THEN CellsZipped(Owner("row", i), table.rows[i + 1].cells, frame.rows_area)
              ELSE CellsDrawn(Owner("row", i)) = << >>

\* C9's case: two columns, and a frame that draws a row of three cells and a row of
\* one cell.
C9_Witness ==
    /\ Windowed
    /\ Len(frame.columns_widths) = 2
    /\ \E i, j \in frame.window.start..(frame.window.end - 1) :
          /\ table.rows[i + 1].cells = 3 /\ Len(CellsDrawn(Owner("row", i))) = 2
          /\ table.rows[j + 1].cells = 1 /\ Len(CellsDrawn(Owner("row", j))) = 1

\* The numbers of cells of the rows, the header and the footer of the table.
CellCounts ==
    {table.rows[i].cells : i \in 1..RowCount}
        \cup (IF table.header = None THEN {} ELSE {table.header[1].cells})
        \cup (IF table.footer = None THEN {} ELSE {table.footer[1].cells})
column_count ==
    IF CellCounts = {} THEN 0 ELSE CHOOSE n \in CellCounts : \A m \in CellCounts : m <= n

\* The width every derived column gets when the table is `width` wide.
DerivedWidth(width) ==
    Max2(0, width - table.column_spacing * (column_count - 1)) \div column_count

\* Table::default() with rows of 2 and 3 cells, a header and a footer of 2 cells and
\* column_spacing(0); and with a header or a footer of 2 cells alone.
TableOfRows ==
    [DefaultTable EXCEPT !.rows = << Row(1, 0, 0, 2, "reset"), Row(1, 0, 0, 3, "reset") >>,
                         !.header = Some(Row(1, 0, 0, 2, "reset")),
                         !.footer = Some(Row(1, 0, 0, 2, "reset"))]
TableOfHeader == [DefaultTable EXCEPT !.header = Some(Row(1, 0, 0, 2, "reset"))]
TableOfFooter == [DefaultTable EXCEPT !.footer = Some(Row(1, 0, 0, 2, "reset"))]

LaidOut == Rendered /\ ~frame.early /\ table.widths # << >>
W == frame.table_area.width
ColumnsAre(kinds) == \A k \in 1..Len(table.widths) : table.widths[k].kind \in kinds

\* What the gutter, the columns and the spacers between them ask for, in order:
\* [g, c0, s, c1, s, ...].
Requested ==
    [k \in 1..(2 * Len(table.widths)) |->
        IF k = 1 THEN frame.selection_width
        ELSE IF k % 2 = 0 THEN table.widths[k \div 2].a
        ELSE table.column_spacing]
TotalRequested == SumSizes(Requested, Len(Requested))

\* The segments laid out left to right over [0, W), each getting what it asks for
\* or what the earlier ones have left; column i is segment 2i.
LeftToRightOffset(k) == Min2(W, SumSizes(Requested, k - 1))
LeftToRightWidth(k) == Min2(Requested[k], W - LeftToRightOffset(k))
LeftToRight ==
    [i \in 1..Len(table.widths) |-> << LeftToRightOffset(2 * i), LeftToRightWidth(2 * i) >>]

\* Table::new(vec![], widths).segment_size(segment_size), as the tests of the column
\* widths build it.
TableOfWidths(widths, segment_size) ==
    [NewTable(<< >>, widths, None, None, 1, None, "WhenSelected")
        EXCEPT !.segment_size = segment_size]

\* C11 as stated: for Length columns get_columns_widths is the left-to-right layout
\* of [Length(g), c0, Length(s), c1, ...] over [0, W), the content segments only.
C11_LengthsLeftToRight ==
    /\ (LaidOut /\ ColumnsAre({"Length"})) => frame.columns_widths = LeftToRight
    /\ get_columns_widths(TableOfWidths(<<Length(4), Length(4)>>, "None"), 7, 3)
          = << <<3, 4>>, <<7, 0>> >>

\* C11, amended: the same under SegmentSize::None; under LastTakesRemainder the last
\* column, and only it, also takes the width left over. With enough space the first
\* offset is g and every next offset the one before plus its width plus s.
C11_LengthsLeftToRightExact ==
    /\ (LaidOut /\ ColumnsAre({"Length"})) =>
          LET n == Len(table.widths)
              cols == frame.columns_widths
          IN  /\ table.segment_size = "None" => cols = LeftToRight
              /\ table.segment_size = "LastTakesRemainder" =>
                    /\ \A i \in 1..(n - 1) : cols[i] = LeftToRight[i]
                    /\ cols[n] = << LeftToRight[n][1], W - LeftToRight[n][1] >>
              /\ (table.segment_size = "None" /\ TotalRequested <= W) =>
                    /\ cols[1][1] = frame.selection_width
                    /\ \A i \in 1..(n - 1) :
                          cols[i + 1][1] = cols[i][1] + cols[i][2] + table.column_spacing
    /\ get_columns_widths(TableOfWidths(<<Length(4), Length(4)>>, "None"), 7, 3)
          = << <<3, 4>>, <<7, 0>> >>

\* C11's case: a gutter, two Length columns and a spacer laid out in less width
\* than they ask for: the second column is left with no width.
C11_Witness ==
    /\ LaidOut /\ ColumnsAre({"Length"}) /\ table.segment_size = "None"
    /\ frame.selection_width = 3 /\ table.column_spacing = 1 /\ W = 7
    /\ frame.columns_widths = << <<3, 4>>, <<7, 0>> >>

\* The segments the frame's column layout was taken from: the split of the gutter,
\* the columns and the spacers over [0, W).
FrameSegments ==
    Split(interspersed(table.widths, frame.selection_width, table.column_spacing),
          W, table.segment_size)

\* C12: whatever the constraints, the policy, the gutter, the spacing and the width W,
\* the segments are contiguous from 0, in order, never negative, and sum to at most
\* W; get_columns_widths returns one (offset, width) per column, the offsets never
\* decrease and every offset + width is at most W.
C12_SegmentsContiguousWithinWidth ==
    LaidOut =>
        LET segs == FrameSegments
            cols == frame.columns_widths
            n    == Len(table.widths)
        IN  /\ Len(segs) = 2 * n
            /\ segs[1].offset = 0
            /\ \A k \in 1..Len(segs) : segs[k].length >= 0
            /\ \A k \in 1..(Len(segs) - 1) :
                  segs[k + 1].offset = segs[k].offset + segs[k].length
            /\ SumSizes([k \in 1..Len(segs) |-> segs[k].length], Len(segs)) <= W
            /\ Len(cols) = n
            /\ \A i \in 1..n : cols[i][1] >= 0 /\ cols[i][2] >= 0
            /\ \A i \in 1..(n - 1) : cols[i][1] <= cols[i + 1][1]
            /\ \A i \in 1..n : cols[i][1] + cols[i][2] <= W

\* C12's case: a gutter, two Max columns and a spacer that ask for more than the
\* width: the columns are shrunk, the second to nothing at the right edge.
C12_Witness ==
    /\ LaidOut /\ ColumnsAre({"Max"}) /\ TotalRequested > W
    /\ frame.selection_width = 3 /\ table.column_spacing = 1 /\ W = 7
    /\ frame.columns_widths = << <<3, 3>>, <<7, 0>> >>

\* What the gutter, the columns and the spacers ask for together over width W, as a
\* fraction over FrameDen (a Percentage or Ratio column asks for its share of W).
FrameConstraints ==
    interspersed(table.widths, frame.selection_width, table.column_spacing)
FrameDen == CommonDenominator(FrameConstraints, Len(FrameConstraints))
TotalAsked ==
    SumSizes([k \in 1..Len(FrameConstraints) |-> Desired(FrameConstraints[k], W, FrameDen)],
             Len(FrameConstraints))
Surplus == TotalAsked < W * FrameDen

\* C13: under SegmentSize::None, in a width that exceeds what is asked for, every
\* Min(n) and Max(n) column is exactly n wide and the surplus is left after the last
\* column; two Min(4) or two Max(4) over 20 give (0,4),(5,4), and Min(10), Min(10),
\* Min(1) over 62 give (0,10),(11,10),(22,1).
C13_ExactLeavesSurplusUnused ==
    /\ (LaidOut /\ table.segment_size = "None" /\ Surplus) =>
          LET n    == Len(table.widths)
              cols == frame.columns_widths
          IN  /\ \A i \in 1..n :
                    table.widths[i].kind \in {"Min", "Max"} => cols[i][2] = table.widths[i].a
              /\ ColumnsAre({"Length", "Min", "Max"}) =>
                    /\ cols[n][1] + cols[n][2] = TotalRequested
                    /\ cols[n][1] + cols[n][2] < W
    /\ get_columns_widths(TableOfWidths(<<MinC(4), MinC(4)>>, "None"), 20, 0)
          = << <<0, 4>>, <<5, 4>> >>
    /\ get_columns_widths(TableOfWidths(<<MaxC(4), MaxC(4)>>, "None"), 20, 0)
          = << <<0, 4>>, <<5, 4>> >>
    /\ get_columns_widths(TableOfWidths(<<MinC(10), MinC(10), MinC(1)>>, "None"), 62, 0)
          = << <<0, 10>>, <<11, 10>>, <<22, 1>> >>

\* C13's case: two Min(4) columns and a spacer in a width of one more than they
\* ask for, under SegmentSize::None: the last column ends one short of the width.
C13_Witness ==
    /\ LaidOut /\ table.segment_size = "None" /\ Surplus
    /\ table.widths = <<MinC(4), MinC(4)>> /\ table.column_spacing = 1
    /\ frame.selection_width = 0 /\ W = 10
    /\ frame.columns_widths = << <<0, 4>>, <<5, 4>> >>

\* The segments the same frame would have under SegmentSize::None.
ExactSegments == Split(FrameConstraints, W, "None")

\* C14: under SegmentSize::LastTakesRemainder, in a width that exceeds what is asked
\* for, every segment but the last is what it is under SegmentSize::None and the
\* last column starts where it starts under None and ends at W; Min(10), Min(10),
\* Min(1) with spacing 1 over 62 give (0,10),(11,10),(22,40).
C14_LastTakesRemainder ==
    /\ (LaidOut /\ table.segment_size = "LastTakesRemainder" /\ Surplus) =>
          LET n    == Len(table.widths)
              cols == frame.columns_widths
              segs == FrameSegments
          IN  /\ \A k \in 1..(2 * n - 1) : segs[k] = ExactSegments[k]
              /\ \A i \in 1..(n - 1) :
                    cols[i] = << ExactSegments[2 * i].offset, ExactSegments[2 * i].length >>
              /\ cols[n][1] = ExactSegments[2 * n].offset
              /\ cols[n][2] >= ExactSegments[2 * n].length
              /\ cols[n][1] + cols[n][2] = W
    /\ get_columns_widths(
          TableOfWidths(<<MinC(10), MinC(10), MinC(1)>>, "LastTakesRemainder"), 62, 0)
          = << <<0, 10>>, <<11, 10>>, <<22, 40>> >>

\* C14's case: two Min(4) columns and a spacer in a width of one more than they
\* ask for, under LastTakesRemainder: the last column is one wider.
C14_Witness ==
    /\ LaidOut /\ table.segment_size = "LastTakesRemainder" /\ Surplus
    /\ table.widths = <<MinC(4), MinC(4)>> /\ table.column_spacing = 1
    /\ frame.selection_width = 0 /\ W = 10
    /\ frame.columns_widths = << <<0, 4>>, <<5, 5>> >>

\* A frame laid out under SegmentSize::EvenDistribution in more width than asked for.
EvenWithSurplus == LaidOut /\ table.segment_size = "EvenDistribution" /\ Surplus

\* The gutter and the spacers have the size asked for, and the last column ends at W.
SpacersKeptWidthFilled ==
    LET n    == Len(table.widths)
        segs == FrameSegments
    IN  /\ segs[1].length = frame.selection_width
        /\ \A i \in 1..(n - 1) : segs[2 * i + 1].length = table.column_spacing
        /\ frame.columns_widths[n][1] + frame.columns_widths[n][2] = W

BoundaryPosition(k) ==
    Min2(W * FrameDen,
         SumSizes([j \in 1..Len(FrameConstraints) |-> Desired(FrameConstraints[j], W, FrameDen)], k))

\* b is an integer nearest to num/den.
Nearest(b, num, den) ==
    /\ 2 * (den * b - num) <= den
    /\ 2 * (num - den * b) <= den

\* Column i starts at the rounded boundary before it and ends at the rounded
\* boundary after it.
BetweenRoundedBoundaries(i) ==
    LET col == frame.columns_widths[i]
    IN  /\ Nearest(col[1], BoundaryPosition(2 * i - 1), FrameDen)
        /\ Nearest(col[1] + col[2], BoundaryPosition(2 * i), FrameDen)

\* The examples of the rounding: two Percentage(30) over 7, two Ratio(1,3) over 20,
\* and both over 7 behind a gutter of 3, with spacing 1.
RoundingExamples ==
    /\ get_columns_widths(TableOfWidths(<<Percentage(30), Percentage(30)>>, "None"), 7, 0)
          = << <<0, 2>>, <<3, 2>> >>
    /\ get_columns_widths(TableOfWidths(<<Ratio(1, 3), Ratio(1, 3)>>, "None"), 20, 0)
          = << <<0, 7>>, <<8, 6>> >>
    /\ get_columns_widths(TableOfWidths(<<Percentage(30), Percentage(30)>>, "None"), 7, 3)
          = << <<3, 2>>, <<6, 1>> >>
    /\ get_columns_widths(TableOfWidths(<<Ratio(1, 3), Ratio(1, 3)>>, "None"), 7, 3)
          = << <<3, 2>>, <<6, 1>> >>

\* C16 as stated: for Percentage and Ratio columns every column lies between two
\* consecutive boundaries, each W times the cumulative fraction, capped at W and
\* rounded on its own to the nearest integer.
C16_BoundaryRounding ==
    /\ (LaidOut /\ ColumnsAre({"Percentage", "Ratio"})) =>
          \A i \in 1..Len(table.widths) : BetweenRoundedBoundaries(i)
    /\ RoundingExamples

\* C16, amended: so it is under SegmentSize::None; under LastTakesRemainder so are all
\* columns but the last, which starts at its rounded boundary and ends at W.
C16_BoundaryRoundingExact ==
    /\ (LaidOut /\ ColumnsAre({"Percentage", "Ratio"})) =>
          LET n == Len(table.widths)
          IN  /\ table.segment_size = "None" => \A i \in 1..n : BetweenRoundedBoundaries(i)
              /\ table.segment_size = "LastTakesRemainder" =>
                    /\ \A i \in 1..(n - 1) : BetweenRoundedBoundaries(i)
                    /\ Nearest(frame.columns_widths[n][1], BoundaryPosition(2 * n - 1), FrameDen)
                    /\ frame.columns_widths[n][1] + frame.columns_widths[n][2] = W
    /\ RoundingExamples

\* C16's case: two Ratio(1,3) columns and a spacer over 10: the boundaries 10/3,
\* 13/3 and 23/3 round to 3, 4 and 8, so the columns are 3 and 4 wide.
C16_Witness ==
    /\ LaidOut /\ table.segment_size = "None"
    /\ table.widths = <<Ratio(1, 3), Ratio(1, 3)>> /\ table.column_spacing = 1
    /\ frame.selection_width = 0 /\ W = 10
    /\ frame.columns_widths = << <<0, 3>>, <<4, 4>> >>

\* The minimums of the first k columns together.
MinimumsUpTo(k) == SumSizes([i \in 1..Len(table.widths) |-> table.widths[i].a], k)

\* C17: when the minimums of Min columns exceed the width, the gutter and the spacers
\* get no width and the columns take theirs left to right; two Min(4) over 7 are
\* (0,4),(4,3) whether the gutter asks for 0 or for 3.
C17_MinimumsBeforeGutterAndSpacers ==
    /\ (LaidOut /\ ColumnsAre({"Min"}) /\ MinimumsUpTo(Len(table.widths)) > W) =>
          LET n    == Len(table.widths)
              segs == FrameSegments
              cols == frame.columns_widths
          IN  /\ segs[1].length = 0
              /\ \A i \in 1..(n - 1) : segs[2 * i + 1].length = 0
              /\ \A i \in 1..n :
                    LET at == Min2(W, MinimumsUpTo(i - 1))
                    IN  cols[i] = << at, Min2(table.widths[i].a, W - at) >>
    /\ get_columns_widths(TableOfWidths(<<MinC(4), MinC(4)>>, "None"), 7, 0)
          = << <<0, 4>>, <<4, 3>> >>
    /\ get_columns_widths(TableOfWidths(<<MinC(4), MinC(4)>>, "None"), 7, 3)
          = << <<0, 4>>, <<4, 3>> >>

\* C17's case: two Min(4) columns with spacing 1 behind a gutter that asks for 3,
\* over 7: the columns are 4 and 3 wide from offset 0, nothing is left for the rest.
C17_Witness ==
    /\ LaidOut /\ table.widths = <<MinC(4), MinC(4)>>
    /\ frame.selection_width = 3 /\ table.column_spacing = 1 /\ W = 7
    /\ FrameSegments[1].length = 0 /\ FrameSegments[3].length = 0
    /\ frame.columns_widths = << <<0, 4>>, <<4, 3>> >>

\* The six fixed values of the vertical split, 0 for an absent header or footer.
HeaderPart(field) == IF table.header = None THEN 0 ELSE table.header[1][field]
FooterPart(field) == IF table.footer = None THEN 0 ELSE table.footer[1][field]
FixedHeight ==
    HeaderPart("top_margin") + HeaderPart("height") + HeaderPart("bottom_margin")
    + FooterPart("top_margin") + FooterPart("height") + FooterPart("bottom_margin")
Bottom(r) == r.y + r.height

\* C18: the header, body and footer bands lie in the table area one below the other
\* without overlap, as wide as the area; when the area is at least as high as the six
\* fixed values together, the header band is header.height high below its top margin,
\* the footer band is footer.height high and ends footer.bottom_margin above the
\* area's bottom, and the body band is what lies between the two and their margins.
C18_VerticalBands ==
    (Rendered /\ ~frame.early) =>
        LET a == frame.table_area
            h == frame.header_area
            b == frame.rows_area
            f == frame.footer_area
        IN  /\ \A r \in {h, b, f} : r.x = a.x /\ r.width = a.width /\ r.height >= 0
            /\ a.y <= h.y /\ Bottom(h) <= b.y /\ Bottom(b) <= f.y /\ Bottom(f) <= Bottom(a)
            /\ a.height >= FixedHeight =>
                  /\ h.y = a.y + HeaderPart("top_margin")
                  /\ h.height = HeaderPart("height")
                  /\ b.y = Bottom(h) + HeaderPart("bottom_margin")
                  /\ b.height = a.height - FixedHeight
                  /\ f.y = Bottom(b) + FooterPart("top_margin")
                  /\ f.height = FooterPart("height")
                  /\ Bottom(f) = Bottom(a) - FooterPart("bottom_margin")

\* C18's case: a footer one line high with a bottom margin of one line, no header,
\* in an area three lines high: the body has the first line and the footer the
\* second, one line above the bottom.
C18_Witness ==
    /\ Rendered /\ ~frame.early
    /\ table.header = None /\ table.footer = Some(Row(1, 0, 1, 2, "footer"))
    /\ frame.table_area = Rect(0, 0, MaxWidth, 3)
    /\ frame.header_area = Rect(0, 0, MaxWidth, 0)
    /\ frame.rows_area = Rect(0, 0, MaxWidth, 1)
    /\ frame.footer_area = Rect(0, 1, MaxWidth, 1)

\* The positions, in the frame's writes, of the highlight style.
HighlightsAt == {k \in DOMAIN frame.draws : frame.draws[k].owner.kind = "highlight"}

\* Write k paints the highlight style over the area of row i, over the full width of
\* the body, after every other write of that row: its own style, the symbol, its
\* cells.
HighlightOverRow(k, i) ==
    LET d == frame.draws[k]
    IN  /\ d.op = "set_style" /\ d.style = table.highlight_style
        /\ \E j \in 1..(k - 1) :
              frame.draws[j] = SetStyle(d.rect, table.rows[i + 1].style, Owner("row", i))
        /\ d.rect.x = frame.rows_area.x /\ d.rect.width = frame.rows_area.width
        /\ \A j \in DOMAIN frame.draws :
              (frame.draws[j].owner = Owner("row", i) \/ frame.draws[j].op = "symbol")
                  => j < k

\* C19: the highlight style is painted only over the row state.selected names, over
\* its whole area and after all its other writes, once if that row is drawn; it is
\* painted over no row when nothing is selected or the selection is past the last
\* row. In the buffer the row's area is left in the highlight style.
C19_HighlightOverSelectedRow ==
    Rendered =>
        /\ \A k \in HighlightsAt :
              LET i == frame.draws[k].owner.index
              IN  /\ state.selected = Some(i) /\ i < RowCount
                  /\ HighlightOverRow(k, i)
                  /\ \A p \in Cells(frame.draws[k].rect) \cap DOMAIN Buffer :
                        Buffer[p].style = table.highlight_style
        /\ \A n \in 1..Len(RowsDrawn(frame)) :
              Cardinality({k \in HighlightsAt :
                              frame.draws[k].owner.index = RowsDrawn(frame)[n]})
                  = IF state.selected = Some(RowsDrawn(frame)[n]) THEN 1 ELSE 0
        /\ (state.selected = None \/ ~SelectedInRange) => HighlightsAt = {}

\* C19's case: the second row is selected and drawn with its symbol after another
\* row, and the highlight style is the last thing written for it.
C19_Witness ==
    /\ Rendered /\ state.selected = Some(1) /\ frame.selection_width > 0
    /\ Len(RowsDrawn(frame)) >= 2
    /\ \E k \in HighlightsAt :
          /\ frame.draws[k].owner.index = 1
          /\ frame.draws[k - 1].op = "cell"
          /\ Buffer[<<0, frame.draws[k].rect.y>>].style = table.highlight_style

\* The display width of the table's highlight symbol, 0 without one.
SymbolWidth == IF table.highlight_symbol = None THEN 0 ELSE table.highlight_symbol[1]

\* The column layout the frame's table and width get with TableState `st`.
ColumnsWith(st) == get_columns_widths(table, W, selection_width(table, st))

\* C20: the gutter of a frame is as wide as the highlight symbol under Always, and
\* under WhenSelected with a row selected; it is 0 under Never, under WhenSelected
\* with none selected, and without a symbol. Under Always the columns are laid out
\* the same with and without a selection; under Never no symbol is drawn.
C20_GutterWidth ==
    (Rendered /\ ~frame.early) =>
        LET hs == table.highlight_spacing
        IN  /\ frame.selection_width =
                  IF \/ hs = "Always"
                     \/ hs = "WhenSelected" /\ state.selected # None
                  THEN SymbolWidth ELSE 0
            /\ hs = "Always" =>
                  /\ frame.columns_widths = ColumnsWith([state EXCEPT !.selected = None])
                  /\ frame.columns_widths = ColumnsWith([state EXCEPT !.selected = Some(0)])
            /\ hs = "Never" =>
                  \A k \in DOMAIN frame.draws : frame.draws[k].op # "symbol"

\* C20's case: under Always with a symbol three columns wide and no row selected,
\* the gutter is reserved: the first column starts at 3 and no symbol is drawn.
C20_Witness ==
    /\ Rendered /\ ~frame.early
    /\ table.highlight_spacing = "Always" /\ table.highlight_symbol = Some(3)
    /\ state.selected = None
    /\ frame.selection_width = 3 /\ W = MaxLayoutWidth
    /\ frame.columns_widths[1][1] = 3
    /\ \A k \in DOMAIN frame.draws : frame.draws[k].op # "symbol"

\* The writes a frame made for its rows: their styles, their cells, the highlight.
RowWrites ==
    {k \in DOMAIN frame.draws : frame.draws[k].owner.kind \in {"row", "highlight"}}

\* C21: the area of every row a frame draws, and every cell rectangle in it, lies
\* inside the body band, whatever the rows' heights and margins and the body's
\* height.
C21_RowsInsideBody ==
    Rendered =>
        \A k \in RowWrites :
            LET r == frame.draws[k].rect
            IN  /\ frame.rows_area.x <= r.x
                /\ r.x + r.width <= frame.rows_area.x + frame.rows_area.width
                /\ frame.rows_area.y <= r.y
                /\ r.y + r.height <= frame.rows_area.y + frame.rows_area.height

\* C22: no u16 computation of a render overflows: not spacing * (column_count - 1),
\* not height + row.height nor height += height_with_margin, not
\* area.y + y_offset + top_margin; no frame wraps a result and none panics on one.
C22_ArithmeticTotal ==
    /\ last # "overflow"
    /\ ~frame.overflow.columns /\ ~frame.overflow.window /\ ~frame.overflow.rows

\* The offset and the selection as get_row_bounds clamps them, and the window its
\* first loop leaves, before the two loops that follow the selection.
ClampedOffset == ClampOffset(table.rows, frame.offset_in)
ClampedSelection == ClampSelected(table.rows, frame.before.selected)
InitialWindow ==
    InitialScan(table.rows, Win(ClampedOffset, ClampedOffset, 0, FALSE), max_height)
SelectionInInitialWindow ==
    /\ Windowed
    /\ InitialWindow.start <= ClampedSelection
    /\ ClampedSelection < InitialWindow.end

\* The first index from s at which one more row's height_with_margin would bring the
\* accumulated height_with_margin above max_height, row_count if there is none.
FirstOverflowingFrom(s) ==
    CHOOSE e \in s..RowCount :
        /\ WindowHeight(table.rows, s, e) <= max_height
        /\ e = RowCount \/ WindowHeight(table.rows, s, e + 1) > max_height

\* C23: when the selected row lies inside the initial window, get_row_bounds returns
\* start = min(offset, row_count - 1) and end = the first index at which the next
\* row's height_with_margin no longer fits in max_height.
C23_WindowStaysWhenSelectionInside ==
    SelectionInInitialWindow =>
        /\ frame.window.start = Min2(frame.offset_in, RowCount - 1)
        /\ frame.window.end = FirstOverflowingFrom(frame.window.start)

\* A frame whose TableState came with a selected index below its (clamped) offset.
SelectionBelowOffset ==
    /\ Windowed /\ frame.before.selected # None
    /\ ClampedSelection < ClampedOffset

\* C24: when the selected index is below the clamped incoming offset, the window
\* starts at the selected row, its rows fit in max_height, and its end is the end of
\* the window at the incoming offset unless one more row would not fit.
C24_ScrollUpToSelection ==
    SelectionBelowOffset =>
        LET s == frame.window.start
            e == frame.window.end
        IN  /\ s = SelectedIndex
            /\ s <= e /\ e <= InitialWindow.end
            /\ WindowHeight(table.rows, s, e) <= max_height
            /\ e = InitialWindow.end \/ WindowHeight(table.rows, s, e + 1) > max_height

\* C24's case: the selection is below the offset, and the window that starts at it
\* holds more than the selected row but had to give up rows at its end.
C24_Witness ==
    /\ SelectionBelowOffset
    /\ frame.window.start = SelectedIndex
    /\ frame.window.end > frame.window.start + 1
    /\ frame.window.end < InitialWindow.end

\* C25: for a table with at least one row, whatever the offset, the selection (none,
\* a row, or past the last row) and max_height (0 included), get_row_bounds returns,
\* having read no row outside 0..row_count-1, a window with
\* 0 <= start <= end <= row_count.
C25_IndicesInRange ==
    (Rendered /\ ~frame.early /\ table.rows # << >>) =>
        /\ frame.windowed
        /\ ~frame.window.panic
        /\ 0 <= frame.window.start
        /\ frame.window.start <= frame.window.end
        /\ frame.window.end <= RowCount

\* C25's case: the selection is past the last row and the stored offset too, and
\* get_row_bounds had to drop rows at the start to reach the last row.
C25_Witness ==
    /\ Windowed /\ ~frame.window.panic
    /\ frame.before.selected # None /\ frame.before.selected[1] >= RowCount
    /\ frame.before.offset >= RowCount
    /\ RowCount >= 2
    /\ frame.window.end = RowCount
    /\ frame.window.start <= frame.window.end

\* A render of a table with at least one row while nothing is selected.
RenderedUnselected == RenderedRows /\ frame.before.selected = None

\* The window get_row_bounds gives for this frame's offset and max_height when row 0
\* is selected.
WindowForRowZero == get_row_bounds(table.rows, Some(0), frame.before.offset, max_height)

\* C26 as stated: with nothing selected and at least one row, the window is the one
\* computed for a selected row 0 and state.offset is 0 after the render, whatever
\* offset was stored before.
C26_UnselectedScrollsToTop ==
    RenderedUnselected =>
        /\ frame.windowed => frame.window = WindowForRowZero
        /\ state.offset = 0

\* C26, amended: the same for a render into a non-empty table area; a render into an
\* empty one returns before the window is computed and the stored offset survives.
C26_UnselectedScrollsToTopWhenAreaNotEmpty ==
    RenderedUnselected =>
        IF frame.early
        THEN state.offset = frame.before.offset
        ELSE /\ frame.windowed
             /\ frame.window = WindowForRowZero
             /\ state.offset = 0

\* C26's case: the host had stored an offset past row 0 and selected nothing; the
\* frame shows rows from row 0 and does not reach the row of the stored offset.
C26_Witness ==
    /\ RenderedUnselected /\ ~frame.early
    /\ frame.before.offset > 0
    /\ frame.before.offset < RowCount
    /\ frame.window.start = 0
    /\ frame.window.end <= frame.before.offset
    /\ state.offset = 0

\* A step from a frame that stored an offset to the next frame with nothing in
\* between: the rows and the selection are those of the frame before, and the body
\* is as high as it was.
ConsecutiveFrames ==
    /\ last = "render" /\ last' = "render"
    /\ frame.windowed
    /\ table' = table
    /\ state'.selected = state.selected
    /\ frame'.rows_area.height = frame.rows_area.height

\* C27: the second of two consecutive frames with the same rows, the same body
\* height and the same selection leaves state.offset at the value the first stored.
C27_OffsetIdempotent == [][ConsecutiveFrames => state'.offset = state.offset]_vars

\* C27's case: the frame before, in the same area, scrolled to the selected row and
\* moved the offset past row 0; this frame, with the rows and the selection
\* unchanged, kept it.
C27_Witness ==
    /\ Windowed
    /\ prev.stored # None
    /\ prev.stored[1] > 0
    /\ frame.before.selected # None
    /\ frame.before.offset = prev.stored[1]
    /\ state.offset = prev.stored[1]
    /\ frame.window.end > frame.window.start

\* The frame returned early: the table area was empty, or the table has no rows.
ReturnedEarly == Rendered /\ (is_empty(frame.table_area) \/ table.rows = << >>)

\* C28: a render that returns early, because the table area left by the block is
\* empty or because the table has no rows, leaves offset and selected as they were,
\* with a header or footer drawn and with a stored offset above 0 too.
C28_EarlyReturnKeepsState == ReturnedEarly => state = frame.before

\* C28's case: a table without rows whose header and footer were drawn, rendered
\* from a TableState with an offset above 0 and a selection.
C28_Witness ==
    /\ Rendered /\ ~is_empty(frame.table_area)
    /\ table.rows = << >>
    /\ \E i \in 1..Len(frame.draws) : frame.draws[i].owner.kind = "header"
    /\ \E i \in 1..Len(frame.draws) : frame.draws[i].owner.kind = "footer"
    /\ frame.before.offset > 0
    /\ frame.before.selected # None
    /\ state = frame.before

\* Row c, the selected row, alone fits in max_height.
SelectedRowFits == height_with_margin(table.rows[ClampedSelection + 1]) <= max_height

\* C29: with c = min(selected or 0, row_count - 1), the window get_row_bounds
\* returns starts at or before row c, and ends after row c whenever row c with its
\* margins is no higher than max_height.
C29_SelectedRowInWindow ==
    Windowed =>
        /\ frame.window.start <= ClampedSelection
        /\ SelectedRowFits => ClampedSelection < frame.window.end

\* C29's case: the selected row alone does not fit and the returned window is empty,
\* at row c.
C29_Witness ==
    /\ Windowed
    /\ ~SelectedRowFits
    /\ frame.window.start = ClampedSelection
    /\ frame.window.end = ClampedSelection

====
